---- MODULE Spec2Model ----
(***************************************************************************)
(* Model of the blossom sketch: the GenerativeTree React component (vision *)
(* initialisation, the p5 sketch with its particle system and the          *)
(* hand-gesture handler) and App's camera-ready flag.                      *)
(*                                                                         *)
(* Two builds of the component are in the repository:                      *)
(*   "GenerativeTree"  src/components/GenerativeTree.tsx                   *)
(*   "part_000"        src/unnamed/part_000 (an earlier build)             *)
(* The variable `build` says which one a behaviour runs.                   *)
(*                                                                         *)
(* Number representation (the code uses IEEE doubles):                     *)
(*   siz, targetScale      thousandths            (1 is 1000)              *)
(*   asiz, rsiz, spd       thousandths of a pixel (100 is 100000)          *)
(*   pos, hand positions   whole pixels                                    *)
(*   dir, angles           whole degrees, multiples of 10                  *)
(*   time                  milliseconds; a flower keeps                    *)
(*                         timeSinceHover = millis() - lastHoveredTime,    *)
(*                         the only way lastHoveredTime is ever read,      *)
(*                         saturated at HoverHorizon                       *)
(*   p.frameCount          modulo FrameCycle (it is only read % 5 and % 4) *)
(* Every p.random() draw is a nondeterministic choice from a small set.    *)
(***************************************************************************)
EXTENDS Integers, Sequences, FiniteSets, TLC

VARIABLES
    build,              \* which build of the component runs
    mounted,            \* containerRef.current / videoRef.current are set
    visionPc,           \* where initVision stands
    visionLog,          \* the library calls initVision has made, in order
    handLandmarker,     \* handLandmarkerRef.current: "null", "GPU" or "CPU"
    srcObject,          \* videoRef.current.srcObject is a camera stream
    listener,           \* the 'loadeddata' listener is attached
    videoReady,         \* the video element has data (readyState >= 2)
    videoTime,          \* videoRef.current.currentTime (frame number)
    lastVideoTime,      \* lastVideoTimeRef.current
    isCameraReady,      \* App's state
    cameraReadyCalls,   \* how often onCameraReady was invoked
    sketch,             \* "none", "running" or "removed"
    win,                \* [w, h]: p.width and p.height
    frameCount,         \* p.frameCount modulo FrameCycle
    parts,              \* the particle list
    treePositions,      \* recorded bloom spots
    prevIndexPos,       \* previous fingertip (prevHandPos in part_000) or Null
    wandPos,            \* smoothed wand position or Null
    fingerStillFrames,
    nextId,             \* [part, spot]: identities of the next particle / entry
    trace,              \* what the last step did (observation only)
    used                \* how much of each input budget has been used

vars == << build, mounted, visionPc, visionLog, handLandmarker, srcObject,
           listener, videoReady, videoTime, lastVideoTime, isCameraReady,
           cameraReadyCalls, sketch, win, frameCount, parts, treePositions,
           prevIndexPos, wandPos, fingerStillFrames, nextId, trace, used >>

visionVars == << visionPc, visionLog, handLandmarker, srcObject, listener >>
sketchVars == << win, frameCount, parts, treePositions, prevIndexPos, wandPos,
                 fingerStillFrames, nextId >>

-----------------------------------------------------------------------------
(* Bounds of the model *)

MaxFrames == 6          \* draw calls explored by Spec
MaxResizes == 1         \* window resizes in Spec
MaxStalls == 1          \* taper draws of 0 per behaviour
MaxSpawns == 2          \* successful branch / fork / twig draws per behaviour
SpawnEvery == 120       \* a spawn draw succeeds only at multiples of this life
LifeVideoFrames == 1    \* camera frames delivered in LifeSpec
LifeHandFrames == 6     \* ... all within this many draw calls
GestureFrames == 13     \* draw calls explored by GestureSpec

Builds == {"GenerativeTree", "part_000"}
Null == [null |-> TRUE]

TRUNK == "trunk"
BRANCH == "branch"
TWIG == "twig"
FLOWER == "flower"

SizOne == 1000          \* siz = 1
HoverHorizon == 1000    \* lastHoveredTime = -1000: never hovered
FrameCycle == 4 * 5
FrameMs == 100          \* milliseconds between two draw calls

WindowSizes == { [w |-> 200, h |-> 20] }
\* p.random(0.015): a taper factor in thousandths, below 15
TaperChoices == {0, 14}
\* p.random(0.25, 2): speed of a branch or twig
SpdChoices == {1000}
\* randNeg(p.random(15, 30)), randNeg(p.random(5, 20)), and part_000's
\* (+-1) * p.random(20, 40): the turn of a new branch or twig
BranchTurns == {20}
TwigTurns == {10}
OldBranchTurns == {30}

Min(a, b) == IF a < b THEN a ELSE b
Max(a, b) == IF a > b THEN a ELSE b

-----------------------------------------------------------------------------
(* p5 helpers *)

\* p.lerp(start, stop, amt) = amt * (stop - start) + start, amt in thousandths
lerpBad(start, stop, amt) == start - (amt * (stop - start)) \div 1000
lerp(start, stop, amt) == (amt * (stop - start)) \div 1000 + start

\* squared p.dist
dist2(x1, y1, x2, y2) == (x1 - x2) * (x1 - x2) + (y1 - y2) * (y1 - y2)

SinTable == << 0, 174, 342, 500, 643, 766, 866, 940, 985, 1000 >>
\* 1000 * sin and cos of d degrees, d a multiple of 10
sin(d) ==
    LET a == (d % 360) \div 10
    IN  IF a <= 9 THEN SinTable[a + 1]
        ELSE IF a <= 18 THEN SinTable[18 - a + 1]
        ELSE IF a <= 27 THEN -SinTable[a - 18 + 1]
        ELSE -SinTable[36 - a + 1]
cos(d) == sin(d + 90)

\* pixels moved along one axis: unit (x1000) times spd (x1000), rounded
Step(unit, spd) == (unit * spd + 500000) \div 1000000

\* integer square root of n
isqrt(n) == CHOOSE k \in 0..1000 : k * k <= n /\ (k + 1) * (k + 1) > n

-----------------------------------------------------------------------------
(* class Particle *)

JitterChoices == {0}        \* p.random(-1, 1), in whole degrees
TwigLifespans == {12}       \* p.random(this.lifespan * 0.05)
TargetNormal == 1000        \* targetScale = 1
TargetBloomed == 2500       \* targetScale = 2.5

\* new Particle(sx, sy, sc, ss, sd, sl, ls, tag); spdDraw is p.random(0.25, 2)
Particle(id, sx, sy, ss, sd, sl, ls, tag, spdDraw) ==
    LET siz0 == IF tag = FLOWER THEN 0 ELSE SizOne
    IN  [ id |-> id, tag |-> tag, pos |-> [x |-> sx, y |-> sy],
          siz |-> siz0, asiz |-> ss, rsiz |-> (ss * siz0) \div SizOne,
          dir |-> sd, life |-> sl, lifespan |-> ls,
          spd |-> IF tag = FLOWER THEN 0
                  ELSE IF tag = TRUNK THEN 2000 ELSE spdDraw,
          targetScale |-> TargetNormal, timeSinceHover |-> HoverHorizon,
          isBloomed |-> FALSE, interactionRotation |-> 0,
          from |-> 0 ]      \* from: the treePositions entry a flower grew on

\* p.map(life, 0, lifespan, 1, 5), in thousandths
jitterMult(p) ==
    IF p.tag = TRUNK /\ p.siz > 900 THEN 1000
    ELSE 1000 + (4000 * p.life) \div p.lifespan

\* The taper draws open to a particle: 0 only while the stall budget lasts
\* (u.stallCap is MaxStalls where the specification explores stalls, else 0).
Tapers(u) == IF u.stalls < u.stallCap THEN TaperChoices ELSE TaperChoices \ {0}

\* Whether a spawn draw (p.random() < 0.03, < 0.01, < twigChance) may succeed.
SpawnFlags(eligible, life, u, n) ==
    IF eligible /\ u.spawns + n < MaxSpawns /\ life % SpawnEvery = 0
    THEN {FALSE, TRUE} ELSE {FALSE}

Count(b) == IF b THEN 1 ELSE 0

\* What one update() call on a particle yields: the particle afterwards, the
\* return value (dead), whether its position was pushed to treePositions and
\* the particles it pushed to parts (ids are given by the caller).
Outcome(p, dead, record, kids, stall, spawns) ==
    [ p |-> p, dead |-> dead, record |-> record, kids |-> kids,
      stall |-> stall, spawns |-> spawns ]

\* Particle.update(), FLOWER part (GenerativeTree.tsx). A flower's life is
\* counted up like any particle's but never read; it is left out here, so
\* that a flower that stays for ever takes finitely many states.
FlowerUpdateBad(p) ==
    LET grown == IF p.siz < SizOne THEN Min(p.siz + 100, SizOne) ELSE p.siz
    IN  Outcome([p EXCEPT !.siz = grown], grown >= SizOne, FALSE, << >>, 0, 0)
FlowerUpdateFades(p) ==
    LET grown == IF p.siz < SizOne THEN Min(p.siz + 100, SizOne) ELSE p.siz
        hover == p.timeSinceHover < 200
    IN  Outcome([p EXCEPT !.siz = grown,
                          !.targetScale = IF hover THEN TargetBloomed
                                          ELSE TargetNormal,
                          !.isBloomed = hover],
                FALSE, FALSE, << >>, 0, 0)
FlowerUpdate(p) ==
    LET grown == IF p.siz < SizOne THEN Min(p.siz + 100, SizOne) ELSE p.siz
        hover == p.timeSinceHover < 200
    IN  Outcome([p EXCEPT !.siz = grown,
                          !.targetScale = IF hover \/ p.isBloomed
                                          THEN TargetBloomed ELSE TargetNormal,
                          !.isBloomed = hover \/ p.isBloomed],
                FALSE, FALSE, << >>, 0, 0)

\* Particle.update(), tree part (GenerativeTree.tsx), for one choice of draws
TreeUpdate1(p, frame, h, r, j, b, f, t, turnB, turnT, spd, ls) ==
    LET life == p.life + 1
        rsiz == (p.asiz * p.siz) \div SizOne
        pos == [x |-> p.pos.x + Step(cos(p.dir), p.spd),
                y |-> p.pos.y + Step(sin(p.dir), p.spd)]
        dir == p.dir + (j * jitterMult([p EXCEPT !.life = life])) \div 1000
        siz == lerp(p.siz, 0, r)
        q == [p EXCEPT !.life = life, !.rsiz = rsiz, !.pos = pos,
                       !.dir = dir, !.siz = siz]
        dead == rsiz < 100 \/ p.spd > rsiz
        kidB == IF b THEN << Particle(0, pos.x, pos.y, rsiz, dir + turnB,
                                      life, p.lifespan, BRANCH, spd) >>
                ELSE << >>
        kidF == IF f THEN << Particle(0, pos.x, pos.y, rsiz, dir,
                                      life, p.lifespan, BRANCH, spd) >>
                ELSE << >>
        kidT == IF t THEN << Particle(0, pos.x, pos.y,
                                      (isqrt(siz * 1000) * rsiz) \div 1000,
                                      dir + turnT, 0, ls, TWIG, spd) >>
                ELSE << >>
    IN  IF dead THEN Outcome(q, TRUE, FALSE, << >>, Count(r = 0), 0)
        ELSE Outcome(q, FALSE,
                     frame % 5 = 0 /\ pos.y * 10 < h * 7,
                     kidB \o kidF \o kidT, Count(r = 0),
                     Count(b) + Count(f) + Count(t))

\* All outcomes of update() on a tree particle (GenerativeTree.tsx)
TreeUpdate(p, frame, h, u) ==
    UNION { UNION { UNION { UNION {
      { TreeUpdate1(p, frame, h, r, j, b, f, t, turnB, turnT, spd, ls) :
          << j, turnB, turnT, spd, ls >> \in
             JitterChoices \X (IF b THEN BranchTurns ELSE {0})
                           \X (IF t THEN TwigTurns ELSE {0})
                           \X (IF b \/ f \/ t THEN SpdChoices ELSE {0})
                           \X (IF t THEN TwigLifespans ELSE {0}) } :
        t \in SpawnFlags(p.tag = BRANCH /\ lerp(p.siz, 0, r) < 250,
                         p.life + 1, u, Count(b) + Count(f)) } :
        f \in SpawnFlags(p.tag = BRANCH, p.life + 1, u, Count(b)) } :
        b \in SpawnFlags(p.tag = TRUNK /\ lerp(p.siz, 0, r) < 550,
                         p.life + 1, u, 0) } :
        r \in Tapers(u) }

\* Particle.update(), FLOWER part (part_000): a grown flower reports dead
OldFlowerUpdate(p) ==
    LET siz == p.siz + 100
    IN  IF siz >= SizOne
        THEN Outcome([p EXCEPT !.life = p.life + 1, !.siz = SizOne],
                     TRUE, FALSE, << >>, 0, 0)
        ELSE Outcome([p EXCEPT !.life = p.life + 1, !.siz = siz],
                     FALSE, FALSE, << >>, 0, 0)

\* Particle.update(), tree part (part_000), for one choice of draws
OldTreeUpdate1(p, frame, r, j, b, f, turnB, spd) ==
    LET life == p.life + 1
        pos == [x |-> p.pos.x + Step(cos(p.dir), p.spd),
                y |-> p.pos.y + Step(sin(p.dir), p.spd)]
        dir == p.dir + (j * jitterMult([p EXCEPT !.life = life])) \div 1000
        siz == lerp(p.siz, 0, r)
        currentSize == (p.asiz * siz) \div SizOne
        q == [p EXCEPT !.life = life, !.pos = pos, !.dir = dir, !.siz = siz]
        dead == currentSize < 500 \/ p.spd > currentSize
        kidB == IF b THEN << Particle(0, pos.x, pos.y, (currentSize * 9) \div 10,
                                      dir + turnB, life, p.lifespan, BRANCH, spd) >>
                ELSE << >>
        kidF == IF f THEN << Particle(0, pos.x, pos.y, currentSize, dir,
                                      life, p.lifespan, BRANCH, spd) >>
                ELSE << >>
    IN  Outcome(q, dead, frame % 4 = 0,
                IF dead THEN << >> ELSE kidB \o kidF, Count(r = 0),
                IF dead THEN 0 ELSE Count(b) + Count(f))

\* All outcomes of update() on a tree particle (part_000)
OldTreeUpdate(p, frame, u) ==
    UNION { UNION { UNION {
      { OldTreeUpdate1(p, frame, r, j, b, f, turnB, spd) :
          << j, turnB, spd >> \in
             JitterChoices \X (IF b THEN OldBranchTurns ELSE {0})
                           \X (IF b \/ f THEN SpdChoices ELSE {0}) } :
        f \in SpawnFlags(p.tag = BRANCH /\ lerp(p.siz, 0, r) > 500,
                         p.life + 1, u, Count(b)) } :
        b \in SpawnFlags(p.tag = TRUNK /\ lerp(p.siz, 0, r) < 600,
                         p.life + 1, u, 0) } :
        r \in Tapers(u) }

\* part.update() for either kind of particle, by build
update(bld, p, frame, h, u) ==
    IF bld = "GenerativeTree"
    THEN IF p.tag = FLOWER THEN {FlowerUpdate(p)} ELSE TreeUpdate(p, frame, h, u)
    ELSE IF p.tag = FLOWER THEN {OldFlowerUpdate(p)} ELSE OldTreeUpdate(p, frame, u)

\* An entry of treePositions; n tells entries with equal coordinates apart
Spot(x, y, n) == [x |-> x, y |-> y, n |-> n]

RECURSIVE WithIds(_, _)
\* the pushed particles, numbered from id on
WithIds(kids, id) ==
    IF kids = << >> THEN << >>
    ELSE << [kids[1] EXCEPT !.id = id] >> \o WithIds(Tail(kids), id + 1)

RemoveAtBad(s, i) == s
RemoveAt(s, i) == SubSeq(s, 1, i - 1) \o SubSeq(s, i + 1, Len(s))

\* One turn of the draw loop's body for parts[i]: update, then keep or splice
LoopBody(st, i, o) ==
    LET kept == IF o.dead THEN RemoveAt(st.parts, i)
                ELSE [st.parts EXCEPT ![i] = o.p]
        rec == IF o.record
               THEN << Spot(o.p.pos.x, o.p.pos.y, st.nextId.spot) >> ELSE << >>
    IN  [ parts |-> kept \o WithIds(o.kids, st.nextId.part),
          tp |-> st.tp \o rec,
          nextId |-> [part |-> st.nextId.part + Len(o.kids),
                      spot |-> st.nextId.spot + Len(rec)],
          u |-> [st.u EXCEPT !.stalls = @ + o.stall, !.spawns = @ + o.spawns,
                             !.recorded = @ + Len(rec)],
          died |-> IF o.dead THEN st.died \cup {o.p.tag} ELSE st.died ]

RECURSIVE UpdateLoop(_, _, _, _, _)
\* for (let i = parts.length - 1; i >= 0; i--) { ... }: every final state
UpdateLoop(bld, st, i, frame, h) ==
    IF i = 0 THEN {st}
    ELSE UNION { UpdateLoop(bld, LoopBody(st, i, o), i - 1, frame, h) :
                 o \in update(bld, st.parts[i], frame, h, st.u) }

-----------------------------------------------------------------------------
(* handleHandInteraction *)

\* What detectForVideo can report of a hand: the fingertip in canvas pixels
\* ((1 - indexTip.x) * p.width, indexTip.y * p.height), isPointing, the
\* finger angle in degrees and handScreenSizeRatio in thousandths.
Hand(x, y, pointing) ==
    [x |-> x, y |-> y, pointing |-> pointing, angle |-> 40, ratio |-> 100]
HandXs == {100, 102, 125, 195}
\* the hands of Spec, whose few frames never make a still finger count
Hands == { Hand(x, 10, FALSE) : x \in HandXs }
\* the hands of the long-running specifications
NearHands == { Hand(x, 10, pt) : x \in {100, 102, 106}, pt \in BOOLEAN }
\* ... and of LifeSpec: the hand appears at 100 and moves to 102
LifeHands ==
    IF prevIndexPos = Null THEN {Hand(100, 10, FALSE)} ELSE {Hand(102, 10, FALSE)}
\* part_000's p.random(15, 25): the size of a flower
OldFlowerSizes == {20000}

\* squared velocity: p.dist(current, prev), 0 without a previous position
velocity2(prev, h) ==
    IF prev = Null THEN 0 ELSE dist2(h.x, h.y, prev.x, prev.y)

\* Math.ceil(velocity / 10)
Steps(v2) == CHOOSE n \in 0..100 : 100 * n * n >= v2 /\
                 (n = 0 \/ 100 * (n - 1) * (n - 1) < v2)

\* spawnFlower(x, y, handScreenSizeRatio) on the entry pt (GenerativeTree.tsx)
spawnFlower(id, pt, ratio) ==
    LET size == Max(10000, Min(35000, 10000 + (ratio - 50) * 100))
    IN  [Particle(id, pt.x, pt.y, size, 0, 0, 0, FLOWER, 0) EXCEPT !.from = pt.n]

\* spawnFlower(x, y) on the entry pt (part_000)
OldSpawnFlower(id, pt, size) ==
    [Particle(id, pt.x, pt.y, size, 0, 0, 0, FLOWER, 0) EXCEPT !.from = pt.n]

RECURSIVE closestFlower(_, _, _, _, _)
\* the loop over parts: index of the closest flower closer than 50, or 0
closestFlower(ps, h, i, closestDist2, best) ==
    IF i > Len(ps) THEN best
    ELSE IF ps[i].tag = FLOWER /\
            dist2(h.x, h.y, ps[i].pos.x, ps[i].pos.y) < closestDist2
         THEN closestFlower(ps, h, i + 1,
                            dist2(h.x, h.y, ps[i].pos.x, ps[i].pos.y), i)
         ELSE closestFlower(ps, h, i + 1, closestDist2, best)

\* the first flower closer than 50, not the closest one
HoveredBad(ps, h) ==
    LET near == { i \in 1..Len(ps) :
                    /\ ps[i].tag = FLOWER
                    /\ dist2(h.x, h.y, ps[i].pos.x, ps[i].pos.y) < 2500 }
    IN  IF near = {} THEN 0 ELSE CHOOSE i \in near : \A k \in near : i <= k
\* let closestDist = 50; let closestFlower = null; for (const part of parts)
\* ...: the index in parts of the flower that is hovered, or 0
Hovered(ps, h) == closestFlower(ps, h, 1, 2500, 0)

\* d < searchRadius for the sample point s of steps between prev and h:
\* lerp(prev, h, s / steps) is within 30 of pt (false when steps = 0: NaN)
NearSample(prev, h, s, steps, pt) ==
    /\ steps > 0
    /\ LET lx == steps * prev.x + s * (h.x - prev.x) - steps * pt.x
           ly == steps * prev.y + s * (h.y - prev.y) - steps * pt.y
       IN  lx * lx + ly * ly < 900 * steps * steps

RECURSIVE LastNear(_, _, _, _, _, _)
\* the inner loop: the last index i of tp whose entry is near the sample, or 0
LastNear(tp, i, prev, h, s, steps) ==
    IF i = 0 THEN 0
    ELSE IF NearSample(prev, h, s, steps, tp[i]) THEN i
         ELSE LastNear(tp, i - 1, prev, h, s, steps)

\* the oldest entry of tp near the sample, not the most recent one
ChosenBad(tp, prev, h, s, steps) ==
    LET near == { i \in 1..Len(tp) : NearSample(prev, h, s, steps, tp[i]) }
    IN  IF near = {} THEN 0 ELSE CHOOSE i \in near : \A k \in near : i <= k
\* for (let i = treePositions.length - 1; i >= 0; i--) { ... break; }: the
\* index of the entry the sample point s spawns a flower on, or 0
Chosen(tp, prev, h, s, steps) == LastNear(tp, Len(tp), prev, h, s, steps)

RECURSIVE Paint(_, _, _, _, _)
\* for (let s = 0; s <= steps; s++) { ... } on st = [parts, tp, nextId]
Paint(st, prev, h, s, steps) ==
    IF s > steps THEN st
    ELSE LET i == Chosen(st.tp, prev, h, s, steps)
         IN  IF i = 0 THEN Paint(st, prev, h, s + 1, steps)
             ELSE Paint([ parts |-> Append(st.parts,
                                     spawnFlower(st.nextId.part, st.tp[i], h.ratio)),
                          tp |-> RemoveAt(st.tp, i),
                          nextId |-> [st.nextId EXCEPT !.part = @ + 1] ],
                        prev, h, s + 1, steps)

\* The result of handleHandInteraction (GenerativeTree.tsx): the sketch state
\* after it and what it did.
Handled(ps, tp, id, prev, wand, still, interact, paint) ==
    [ parts |-> ps, tp |-> tp, nextId |-> id, prevIndexPos |-> prev,
      wandPos |-> wand, fingerStillFrames |-> still,
      interact |-> interact, paint |-> paint ]

\* wandPos.lerp(currentTipPos, 0.2), or a copy of the tip when there is none
Wand(wand, h) ==
    IF wand = Null THEN [x |-> h.x, y |-> h.y]
    ELSE [x |-> lerp(wand.x, h.x, 200), y |-> lerp(wand.y, h.y, 200)]

\* if (isStill) fingerStillFrames++ else fingerStillFrames = 0, where
\* isStill = velocity < 3
StillFramesBad(v2, still) == IF v2 < 9 THEN still + 1 ELSE still
StillFrames(v2, still) == IF v2 < 9 THEN still + 1 ELSE 0

\* the branch taken on a detected hand: isPointing && fingerStillFrames > 10
IsInteractBad(h, still) == h.pointing /\ still > 9
IsInteract(h, still) == h.pointing /\ still > 10

\* the else branch, no landmarks: prevIndexPos = null; wandPos = null;
\* fingerStillFrames = 0
HandLostBad(st) ==
    Handled(st.parts, st.tp, st.nextId, st.prevIndexPos, Null, 0, FALSE, FALSE)
HandLost(st) ==
    Handled(st.parts, st.tp, st.nextId, Null, Null, 0, FALSE, FALSE)

\* handleHandInteraction(result) of GenerativeTree.tsx; result is a hand or Null
handleHandInteraction(st, result) ==
    IF result = Null
    THEN HandLost(st)
    ELSE
      LET h == result
          tip == [x |-> h.x, y |-> h.y]
          v2 == velocity2(st.prevIndexPos, h)
          still == StillFrames(v2, st.fingerStillFrames)
          wand == Wand(st.wandPos, h)
      IN  IF IsInteract(h, still)
          THEN LET c == Hovered(st.parts, h)
                   ps == IF c = 0 THEN st.parts
                         ELSE [st.parts EXCEPT ![c].timeSinceHover = 0,
                                               ![c].interactionRotation = h.angle]
               IN  Handled(ps, st.tp, st.nextId, tip, wand, still, TRUE, FALSE)
          ELSE LET after ==
                     IF Len(st.tp) > 0 /\ st.prevIndexPos # Null
                     THEN Paint([parts |-> st.parts, tp |-> st.tp,
                                 nextId |-> st.nextId],
                                st.prevIndexPos, h, 0, Steps(v2))
                     ELSE [parts |-> st.parts, tp |-> st.tp, nextId |-> st.nextId]
               IN  Handled(after.parts, after.tp, after.nextId, tip, wand,
                           still, FALSE, TRUE)

RECURSIVE Bloom(_, _, _, _, _, _)
\* part_000's loop over treePositions from the end, on st = [parts, tp, nextId]
Bloom(st, i, bloomsNeeded, h, radius2, size) ==
    IF i = 0 \/ bloomsNeeded <= 0 THEN st
    ELSE IF dist2(h.x, h.y, st.tp[i].x, st.tp[i].y) < radius2
         THEN Bloom([ parts |-> Append(st.parts,
                                 OldSpawnFlower(st.nextId.part, st.tp[i], size)),
                      tp |-> RemoveAt(st.tp, i),
                      nextId |-> [st.nextId EXCEPT !.part = @ + 1] ],
                    i - 1, bloomsNeeded - 1, h, radius2, size)
         ELSE Bloom(st, i - 1, bloomsNeeded, h, radius2, size)

\* bloomsNeeded of part_000: 5 above the velocity threshold, else 1 when the
\* draw p.random() < 0.2 succeeds (occasional)
BloomsNeededBad(v2, occasional) ==
    IF v2 > 64 THEN 5 ELSE IF occasional THEN 6 ELSE 0
BloomsNeeded(v2, occasional) ==
    IF v2 > 64 THEN 5 ELSE IF occasional THEN 1 ELSE 0

\* searchRadius of part_000, squared
SearchRadius2(v2) == IF v2 > 64 THEN 6400 ELSE 1600

\* handleHandInteraction(result) of part_000
OldHandleHandInteraction(st, result, occasional, size) ==
    IF result = Null
    THEN Handled(st.parts, st.tp, st.nextId, Null, st.wandPos,
                 st.fingerStillFrames, FALSE, FALSE)
    ELSE
      LET h == result
          v2 == velocity2(st.prevIndexPos, h)
          needed == IF Len(st.tp) > 0 THEN BloomsNeeded(v2, occasional) ELSE 0
          after == IF needed > 0
                   THEN Bloom([parts |-> st.parts, tp |-> st.tp,
                               nextId |-> st.nextId],
                              Len(st.tp), needed, h, SearchRadius2(v2), size)
                   ELSE [parts |-> st.parts, tp |-> st.tp, nextId |-> st.nextId]
      IN  Handled(after.parts, after.tp, after.nextId, [x |-> h.x, y |-> h.y],
                  st.wandPos, st.fingerStillFrames, FALSE, needed > 0)

-----------------------------------------------------------------------------
(* initVision and the effect that runs it *)

\* the input budgets, none of them used
\* (recorded and flowered count the entries pushed to treePositions and the
\* flowers spawned since the tree last started; seen counts the detections
\* in a row that found a hand)
NoneUsed == [draws |-> 0, resizes |-> 0, stalls |-> 0, spawns |-> 0,
             stallCap |-> 0, recorded |-> 0, flowered |-> 0, seen |-> 0]

NoTrace == [ act |-> "init", detect |-> "none", hand |-> Null, vel2 |-> 0,
             interact |-> FALSE, paint |-> FALSE, died |-> {} ]
Did(act) == [NoTrace EXCEPT !.act = act]

Call(name, ok) == [call |-> name, ok |-> ok]

\* Where control goes when the awaited call at pc throws: the catch block of
\* the try the call stands in.
CatchBad(bld, pc) ==
    IF bld = "GenerativeTree" /\ pc \in {"wasm", "gpu", "camera"}
    THEN "retryWasm" ELSE IF pc = "cpu" THEN "rejected" ELSE "resolved"
Catch(bld, pc) ==
    IF bld = "GenerativeTree" /\ pc \in {"wasm", "gpu", "camera"}
    THEN "retryWasm" ELSE "resolved"

\* await FilesetResolver.forVisionTasks(...) of the first attempt
VisionWasm ==
    /\ visionPc = "wasm"
    /\ \E ok \in BOOLEAN :
         /\ visionLog' = Append(visionLog, Call("forVisionTasks", ok))
         /\ visionPc' = IF ok THEN "gpu" ELSE Catch(build, "wasm")
    /\ trace' = Did("vision")
    /\ UNCHANGED << build, mounted, handLandmarker, srcObject, listener,
                    videoReady, videoTime, lastVideoTime, isCameraReady,
                    cameraReadyCalls, sketch, sketchVars, used >>

\* await HandLandmarker.createFromOptions(vision, {delegate: "GPU"}), then the
\* test of navigator.mediaDevices (present or not)
VisionGpu ==
    /\ visionPc = "gpu"
    /\ \E ok \in BOOLEAN, mediaDevices \in BOOLEAN :
         /\ visionLog' = Append(visionLog, Call("createFromOptions GPU", ok))
                           \o (IF ok /\ ~mediaDevices
                               THEN << Call("navigator.mediaDevices", FALSE) >>
                               ELSE << >>)
         /\ handLandmarker' = IF ok THEN "GPU" ELSE handLandmarker
         /\ visionPc' = IF ~ok THEN Catch(build, "gpu")
                        ELSE IF mediaDevices THEN "camera" ELSE "resolved"
    /\ trace' = Did("vision")
    /\ UNCHANGED << build, mounted, srcObject, listener,
                    videoReady, videoTime, lastVideoTime, isCameraReady,
                    cameraReadyCalls, sketch, sketchVars, used >>

\* Whether the stream is attached after getUserMedia: if (videoRef.current)
AttachBad(ok, isMounted) == isMounted
Attach(ok, isMounted) == ok /\ isMounted

\* await navigator.mediaDevices.getUserMedia({video: true}), then the attach
VisionCamera ==
    /\ visionPc = "camera"
    /\ \E ok \in BOOLEAN :
         /\ visionLog' = Append(visionLog, Call("getUserMedia", ok))
         /\ srcObject' = (srcObject \/ Attach(ok, mounted))
         /\ listener' = (listener \/ Attach(ok, mounted))
         /\ visionPc' = IF ok THEN "resolved" ELSE Catch(build, "camera")
    /\ trace' = Did("vision")
    /\ UNCHANGED << build, mounted, handLandmarker,
                    videoReady, videoTime, lastVideoTime, isCameraReady,
                    cameraReadyCalls, sketch, sketchVars, used >>

\* catch (err): await FilesetResolver.forVisionTasks(...) again
VisionRetryWasm ==
    /\ visionPc = "retryWasm"
    /\ \E ok \in BOOLEAN :
         /\ visionLog' = Append(visionLog, Call("forVisionTasks retry", ok))
         /\ visionPc' = IF ok THEN "cpu" ELSE Catch(build, "retryWasm")
    /\ trace' = Did("vision")
    /\ UNCHANGED << build, mounted, handLandmarker, srcObject, listener,
                    videoReady, videoTime, lastVideoTime, isCameraReady,
                    cameraReadyCalls, sketch, sketchVars, used >>

\* await HandLandmarker.createFromOptions(vision, {delegate: "CPU"})
VisionCpu ==
    /\ visionPc = "cpu"
    /\ \E ok \in BOOLEAN :
         /\ visionLog' = Append(visionLog, Call("createFromOptions CPU", ok))
         /\ handLandmarker' = IF ok THEN "CPU" ELSE handLandmarker
         /\ visionPc' = IF ok THEN "resolved" ELSE Catch(build, "cpu")
    /\ trace' = Did("vision")
    /\ UNCHANGED << build, mounted, srcObject, listener,
                    videoReady, videoTime, lastVideoTime, isCameraReady,
                    cameraReadyCalls, sketch, sketchVars, used >>

\* p.random(-2, 2): the offset of a trunk from the middle
StartOffsets == {0}

\* startTree(): the two trunks, pushed to (the empty) parts
startTree(bld, w, id, off) ==
    IF bld = "GenerativeTree"
    THEN << Particle(id, w.w \div 2 + off[1], (w.h * 95) \div 100,
                     100000, 260, 0, 500, TRUNK, 0),
            Particle(id + 1, w.w \div 2 + off[2], (w.h * 95) \div 100,
                     100000, 280, 0, 500, TRUNK, 0) >>
    ELSE << Particle(id, w.w \div 2 - 20, w.h + 20,
                     50000, 270, 0, 500, TRUNK, 0),
            Particle(id + 1, w.w \div 2 + 20, w.h + 20,
                     45000, 270, 0, 500, TRUNK, 0) >>

\* Whether the then-callback creates the sketch: if (containerRef.current)
SketchCreated(isMounted, lm) == isMounted

\* initVision().then(() => { if (containerRef.current) myP5 = new p5(...) }),
\* which runs p.setup
CreateSketch ==
    /\ visionPc = "resolved"
    /\ visionPc' = "done"
    /\ IF SketchCreated(mounted, handLandmarker)
       THEN \E w \in WindowSizes, off \in StartOffsets \X StartOffsets :
              /\ sketch' = "running"
              /\ win' = w
              /\ parts' = startTree(build, w, nextId.part, off)
              /\ nextId' = [nextId EXCEPT !.part = @ + 2]
       ELSE UNCHANGED << sketch, win, parts, nextId >>
    /\ trace' = Did("then")
    /\ UNCHANGED << build, mounted, visionLog, handLandmarker, srcObject,
                    listener, videoReady, videoTime, lastVideoTime,
                    isCameraReady, cameraReadyCalls, frameCount, treePositions,
                    prevIndexPos, wandPos, fingerStillFrames, used >>

\* The video element fires 'loadeddata'; the listener calls onCameraReady,
\* which is App's handleCameraReady: setIsCameraReady(true)
LoadedData ==
    /\ mounted /\ srcObject /\ ~videoReady
    /\ videoReady' = TRUE
    /\ isCameraReady' = (isCameraReady \/ listener)
    /\ cameraReadyCalls' = cameraReadyCalls + Count(listener)
    /\ trace' = Did("loadeddata")
    /\ UNCHANGED << build, mounted, visionVars, videoTime, lastVideoTime,
                    sketch, sketchVars, used >>

\* The camera delivers a frame: videoRef.current.currentTime moves on
VideoFrame(limit) ==
    /\ mounted /\ videoReady
    /\ videoTime = lastVideoTime      \* the frame before it has been seen
    /\ videoTime < limit
    /\ videoTime' = videoTime + 1
    /\ trace' = Did("video")
    /\ UNCHANGED << build, mounted, visionVars, videoReady, lastVideoTime,
                    isCameraReady, cameraReadyCalls, sketch, sketchVars, used >>

\* The effect's cleanup: if (myP5) myP5.remove(); the refs are cleared and
\* the sketch's variables are gone with it
Unmount ==
    /\ mounted
    /\ mounted' = FALSE
    /\ sketch' = IF sketch = "running" THEN "removed" ELSE sketch
    /\ parts' = << >>
    /\ treePositions' = << >>
    /\ prevIndexPos' = Null
    /\ wandPos' = Null
    /\ fingerStillFrames' = 0
    /\ frameCount' = 0
    /\ nextId' = [part |-> 1, spot |-> 1]
    /\ used' = [NoneUsed EXCEPT !.stallCap = used.stallCap]
    /\ videoTime' = 0
    /\ lastVideoTime' = -1
    /\ trace' = Did("unmount")
    /\ UNCHANGED << build, visionVars, videoReady, isCameraReady,
                    cameraReadyCalls, win >>

\* App's render: the notice is shown by {!isCameraReady && (...)}
NoticeShown == ~isCameraReady

-----------------------------------------------------------------------------
(* The sketch: p.draw and p.windowResized *)

RECURSIVE Aged(_)
\* Time passes between two draw calls: millis() has grown by FrameMs
Aged(ps) ==
    IF ps = << >> THEN << >>
    ELSE << [ps[1] EXCEPT !.timeSinceHover = Min(@ + FrameMs, HoverHorizon)] >>
         \o Aged(Tail(ps))

\* The condition of p.draw's first if: a landmarker, a video element with
\* data, and a video time other than the last one processed
CanDetect ==
    /\ handLandmarker # "null"
    /\ mounted
    /\ videoReady
    /\ videoTime # lastVideoTime

\* What handLandmarkerRef.current.detectForVideo does: it throws, or returns
\* a result without landmarks or with a hand; "none": it is not called
Detections(hands, failures) ==
    IF CanDetect
    THEN { [kind |-> k, hand |-> Null] : k \in failures }
         \cup { [kind |-> "hand", hand |-> h] : h \in hands }
    ELSE {[kind |-> "none", hand |-> Null]}
Failures == {"threw", "nohand"}

\* The try block of p.draw on the sketch state st: handleHandInteraction runs
\* on the result unless detectForVideo threw
TryDetectBad(bld, st, det, occasional, size) ==
    IF det.kind \in {"none"}
    THEN Handled(st.parts, st.tp, st.nextId, st.prevIndexPos, st.wandPos,
                 st.fingerStillFrames, FALSE, FALSE)
    ELSE IF bld = "GenerativeTree" THEN handleHandInteraction(st, det.hand)
         ELSE OldHandleHandInteraction(st, det.hand, occasional, size)
TryDetect(bld, st, det, occasional, size) ==
    IF det.kind \in {"none", "threw"}
    THEN Handled(st.parts, st.tp, st.nextId, st.prevIndexPos, st.wandPos,
                 st.fingerStillFrames, FALSE, FALSE)
    ELSE IF bld = "GenerativeTree" THEN handleHandInteraction(st, det.hand)
         ELSE OldHandleHandInteraction(st, det.hand, occasional, size)

\* The sketch state p.draw starts from
SketchState ==
    [ parts |-> Aged(parts), tp |-> treePositions, nextId |-> nextId,
      prevIndexPos |-> prevIndexPos, wandPos |-> wandPos,
      fingerStillFrames |-> fingerStillFrames ]

\* p.draw: hand tracking, then the loop that updates every particle and
\* splices the dead ones. draws' is the new count of draw calls.
DrawBody(draws, hands, failures) ==
    /\ sketch = "running"
    /\ frameCount' = (frameCount + 1) % FrameCycle
    /\ \E det \in Detections(hands, failures), occasional \in BOOLEAN, size \in OldFlowerSizes :
         LET hd == TryDetect(build, SketchState, det, occasional, size)
         IN  /\ lastVideoTime' = IF det.kind = "none" THEN lastVideoTime
                                 ELSE videoTime
             /\ prevIndexPos' = hd.prevIndexPos
             /\ wandPos' = hd.wandPos
             /\ fingerStillFrames' = hd.fingerStillFrames
             /\ \E fin \in UpdateLoop(build,
                                      [ parts |-> hd.parts, tp |-> hd.tp,
                                        nextId |-> hd.nextId, u |-> used,
                                        died |-> {} ],
                                      Len(hd.parts),
                                      (frameCount + 1) % FrameCycle, win.h) :
                  /\ parts' = fin.parts
                  /\ treePositions' = fin.tp
                  /\ nextId' = fin.nextId
                  /\ used' = [fin.u EXCEPT
                                !.draws = draws,
                                !.flowered = @ + Len(hd.parts) - Len(parts),
                                !.seen = IF det.kind = "hand" THEN @ + 1
                                         ELSE IF det.kind = "nohand" THEN 0
                                         ELSE @]
                  /\ trace' = [ act |-> "draw", detect |-> det.kind,
                                hand |-> det.hand,
                                vel2 |-> IF det.kind = "hand"
                                         THEN velocity2(prevIndexPos, det.hand)
                                         ELSE 0,
                                interact |-> hd.interact, paint |-> hd.paint,
                                died |-> fin.died ]
    /\ UNCHANGED << build, mounted, visionVars, videoReady, videoTime,
                    isCameraReady, cameraReadyCalls, sketch, win >>

\* p.draw, for the first MaxFrames calls
Draw ==
    /\ used.draws < MaxFrames
    /\ DrawBody(used.draws + 1, Hands, Failures)

\* p.windowResized: the canvas is resized and the tree starts over
WindowResized ==
    /\ sketch = "running"
    /\ used.resizes < MaxResizes
    /\ \E w \in WindowSizes, off \in StartOffsets \X StartOffsets :
         /\ win' = w
         /\ parts' = startTree(build, w, nextId.part, off)
    /\ nextId' = [nextId EXCEPT !.part = @ + 2]
    /\ treePositions' = << >>
    /\ used' = [used EXCEPT !.resizes = @ + 1, !.recorded = 0, !.flowered = 0]
    /\ trace' = Did("resize")
    /\ UNCHANGED << build, mounted, visionVars, videoReady, videoTime,
                    lastVideoTime, isCameraReady, cameraReadyCalls, sketch,
                    frameCount, prevIndexPos, wandPos, fingerStillFrames >>

-----------------------------------------------------------------------------
(* The program: the component is mounted and its effect has started *)

Init ==
    /\ build \in Builds
    /\ mounted = TRUE
    /\ visionPc = "wasm"
    /\ visionLog = << >>
    /\ handLandmarker = "null"
    /\ srcObject = FALSE
    /\ listener = FALSE
    /\ videoReady = FALSE
    /\ videoTime = 0
    /\ lastVideoTime = -1
    /\ isCameraReady = FALSE
    /\ cameraReadyCalls = 0
    /\ sketch = "none"
    /\ win \in WindowSizes
    /\ frameCount = 0
    /\ parts = << >>
    /\ treePositions = << >>
    /\ prevIndexPos = Null
    /\ wandPos = Null
    /\ fingerStillFrames = 0
    /\ nextId = [part |-> 1, spot |-> 1]
    /\ trace = NoTrace
    /\ used = NoneUsed

Next ==
    \/ VisionWasm
    \/ VisionGpu
    \/ VisionCamera
    \/ VisionRetryWasm
    \/ VisionCpu
    \/ CreateSketch
    \/ LoadedData
    \/ VideoFrame(MaxFrames)
    \/ Unmount
    \/ Draw
    \/ WindowResized

Spec == Init /\ [][Next]_vars

-----------------------------------------------------------------------------
(* The sketch once vision and camera are up: the state Spec reaches when     *)
(* every call of initVision succeeds, the camera has delivered data and the  *)
(* then-callback has run p.setup.                                            *)

Running(blds) ==
    /\ build \in blds
    /\ mounted = TRUE
    /\ visionPc = "done"
    /\ visionLog = << Call("forVisionTasks", TRUE),
                      Call("createFromOptions GPU", TRUE),
                      Call("getUserMedia", TRUE) >>
    /\ handLandmarker = "GPU"
    /\ srcObject = TRUE
    /\ listener = TRUE
    /\ videoReady = TRUE
    /\ videoTime = 0
    /\ lastVideoTime = -1
    /\ isCameraReady = TRUE
    /\ cameraReadyCalls = 1
    /\ sketch = "running"
    /\ win \in WindowSizes
    /\ frameCount = 0
    /\ \E off \in StartOffsets \X StartOffsets :
         parts = startTree(build, win, 1, off)
    /\ treePositions = << >>
    /\ prevIndexPos = Null
    /\ wandPos = Null
    /\ fingerStillFrames = 0
    /\ nextId = [part |-> 3, spot |-> 1]
    /\ trace = Did("then")
    /\ used \in {NoneUsed, [NoneUsed EXCEPT !.stallCap = MaxStalls]}

(* GestureSpec: a long gesture in front of the running sketch of            *)
(* GenerativeTree.tsx; the hand stays near the trunk and the camera has a   *)
(* new frame for every draw.                                                *)

GestureInit == Running({"GenerativeTree"}) /\ used.stallCap = 0

GestureDraw ==
    /\ used.draws < GestureFrames
    /\ CanDetect
    /\ DrawBody(used.draws + 1, NearHands, Failures)

GestureNext ==
    \/ VideoFrame(GestureFrames)
    \/ GestureDraw

GestureSpec == GestureInit /\ [][GestureNext]_vars

(* LifeSpec: the whole life of the tree. p5 calls draw for ever; the camera *)
(* delivers LifeVideoFrames frames early on and then stalls.                *)

LifeInit == Running(Builds) /\ used.stallCap = MaxStalls

LifeVideoFrame ==
    /\ used.draws < LifeHandFrames
    /\ VideoFrame(LifeVideoFrames)

LifeDraw == DrawBody(Min(used.draws + 1, LifeHandFrames), LifeHands, {})

LifeNext ==
    \/ LifeVideoFrame
    \/ LifeDraw

\* p5 calls draw again and again. LifeDraw is enabled in every state of
\* LifeSpec and its steps are the steps that move frameCount on, so that
\* the fairness of draw is the fairness of DrawCalled.
DrawCalled == frameCount' = (frameCount + 1) % FrameCycle

LifeSpec == LifeInit /\ [][LifeNext]_vars /\ WF_frameCount(DrawCalled)

-----------------------------------------------------------------------------
(* The properties of the particles, checked over LifeSpec *)

NewBuild == build = "GenerativeTree"
IsTree(p) == p.tag # FLOWER
InParts(id) == \E i \in 1..Len(parts) : parts[i].id = id
\* no TRUNK, BRANCH or TWIG is in parts
TreeGone == \A i \in 1..Len(parts) : parts[i].tag = FLOWER
HasTag(tag) == \E i \in 1..Len(parts) : parts[i].tag = tag
\* the ids a particle of LifeSpec can carry: the trunks, the spawned branches
\* and twigs, and a flower for each detection
ParticleIds == 1..(2 + MaxSpawns + LifeVideoFrames + 1)

\* every flower of GenerativeTree.tsx in parts is in parts after the step
FlowersStay ==
    NewBuild =>
      \A i \in 1..Len(parts) :
        parts[i].tag = FLOWER => \E j \in 1..Len(parts') : parts'[j].id = parts[i].id

\* C1 as written: every particle that is in parts, a FLOWER too, is removed
\* from parts after finitely many draws (the taper is not zero for ever and
\* there is no resize in LifeSpec).
C1_EveryParticleDies == \A id \in ParticleIds : InParts(id) ~> ~InParts(id)

\* C1 amended: every TRUNK, BRANCH and TWIG particle that is in parts is
\* removed from parts after finitely many draws (again and again, parts
\* holds none of them), and a FLOWER of GenerativeTree.tsx is never removed
\* by the draw loop.
C1_TreeParticlesDie == []<>TreeGone /\ [][FlowersStay]_vars

\* the last tree particle has just died, after branches were spawned, and a
\* flower is still there
C1_FlowerOutlivesTree ==
    /\ NewBuild
    /\ used.spawns >= 2
    /\ trace.died # {}
    /\ HasTag(FLOWER)
    /\ TreeGone

SizInRange ==
    \A i \in 1..Len(parts) :
      IsTree(parts[i]) =>
        /\ 0 <= parts[i].siz /\ parts[i].siz <= SizOne
        /\ parts[i].rsiz <= parts[i].asiz
        /\ parts[i].life = 0 => parts[i].siz = SizOne

SizNotIncreased ==
    \A j \in 1..Len(parts') :
      IsTree(parts'[j]) =>
        IF InParts(parts'[j].id)
        THEN \A i \in 1..Len(parts) :
               parts[i].id = parts'[j].id =>
                 /\ parts'[j].siz <= parts[i].siz
                 /\ parts'[j].asiz = parts[i].asiz
        ELSE parts'[j].siz = SizOne

\* C2: a tree particle's siz is 1 until its first update, is never larger
\* after a step than before it, and is never negative; its rsiz never
\* exceeds its asiz, which never changes.
C2_SizeTrendsToZero == []SizInRange /\ [][SizNotIncreased]_vars

\* a twig that has shrunk, next to a branch
C2_ShrunkTwig ==
    /\ HasTag(BRANCH)
    /\ \E i \in 1..Len(parts) :
         /\ parts[i].tag = TWIG
         /\ parts[i].siz < SizOne /\ parts[i].siz > 0
         /\ parts[i].rsiz < parts[i].asiz

-----------------------------------------------------------------------------
(* The properties of initVision and of the readiness indicator, over Spec *)

Called(name) == \E i \in 1..Len(visionLog) : visionLog[i].call = name
Threw(name) ==
    \E i \in 1..Len(visionLog) : visionLog[i].call = name /\ ~visionLog[i].ok
Succeeded(name) ==
    \E i \in 1..Len(visionLog) : visionLog[i].call = name /\ visionLog[i].ok
\* a call of the outer try block threw
FirstAttemptThrew ==
    Threw("forVisionTasks") \/ Threw("createFromOptions GPU") \/ Threw("getUserMedia")
Settled == visionPc \in {"resolved", "done"}

\* C6 as written: once initVision has settled, createFromOptions with the
\* CPU delegate has been attempted exactly when the first attempt threw.
C6_CpuCreationIffFirstThrew ==
    NewBuild /\ Settled => (Called("createFromOptions CPU") <=> FirstAttemptThrew)

\* C6 amended: initVision never rejects; once it has settled, the catch
\* block has been entered exactly when the first attempt threw, and
\* createFromOptions with the CPU delegate has been attempted exactly when,
\* in addition, the second forVisionTasks call succeeded; the sketch exists
\* only after initVision has settled, and does exist then if the component
\* is still mounted.
C6_InitVisionSettles ==
    /\ visionPc # "rejected"
    /\ NewBuild =>
         /\ Called("forVisionTasks retry") => FirstAttemptThrew
         /\ Settled => (Called("forVisionTasks retry") <=> FirstAttemptThrew)
         /\ Settled => (Called("createFromOptions CPU") <=>
                          FirstAttemptThrew /\ Succeeded("forVisionTasks retry"))
    /\ sketch # "none" => visionPc = "done"
    /\ visionPc = "done" /\ mounted => sketch = "running"

\* every call of initVision threw, there is no landmarker, and the tree has
\* grown for some frames
C6_TreeWithoutTracker ==
    /\ NewBuild
    /\ Threw("forVisionTasks") /\ Threw("forVisionTasks retry")
    /\ ~Called("createFromOptions CPU")
    /\ handLandmarker = "null"
    /\ sketch = "running" /\ used.draws >= 2 /\ HasTag(TRUNK)

\* C7: onCameraReady has been called only if a landmarker was created, the
\* stream was obtained and attached and the video has fired 'loadeddata';
\* isCameraReady is true exactly if it has been called, never goes from true
\* to false, and the notice is shown exactly while it is false.
C7_Truthful ==
    /\ cameraReadyCalls > 0 =>
         /\ handLandmarker # "null" /\ Succeeded("createFromOptions GPU")
         /\ Succeeded("getUserMedia") /\ srcObject /\ videoReady
    /\ isCameraReady <=> cameraReadyCalls > 0
    /\ NoticeShown <=> ~isCameraReady

C7_ReadinessIndicator ==
    /\ []C7_Truthful
    /\ [][(isCameraReady => isCameraReady') /\
           (isCameraReady' # isCameraReady => trace'.act = "loadeddata")]_vars

\* the indicator is on, and stays on after the component is unmounted
C7_ReadyAfterUnmount ==
    isCameraReady /\ ~NoticeShown /\ cameraReadyCalls = 1 /\ ~mounted

\* C9 as written: when initVision has ended with a landmarker, made with the
\* GPU or with the CPU delegate, the stream has been requested and attached
\* to the video element and the 'loadeddata' listener is in place. (Read in
\* favour of the claim: the component is still mounted, the browser has
\* navigator.mediaDevices, and getUserMedia did not throw.)
C9_LandmarkerHasCamera ==
    /\ NewBuild /\ Settled /\ mounted /\ handLandmarker # "null"
    /\ ~Threw("navigator.mediaDevices") /\ ~Threw("getUserMedia")
    => Succeeded("getUserMedia") /\ srcObject /\ listener

-----------------------------------------------------------------------------
(* The properties of p.draw and of the flowers, over Spec *)

OldBuild == build = "part_000"
\* the step is a draw call whose detection had the given outcome
Detected(kind) == trace'.act = "draw" /\ trace'.detect = kind
\* the flowers that are in parts after the step and were not before it
NewFlowers ==
    { j \in 1..Len(parts') : parts'[j].tag = FLOWER /\ ~InParts(parts'[j].id) }
\* the entry of treePositions a flower grew on lies within radius2 of h
GrewWithin(q, h, radius2) ==
    \E k \in 1..Len(treePositions) :
      /\ treePositions[k].n = q.from
      /\ dist2(h.x, h.y, treePositions[k].x, treePositions[k].y) < radius2

\* the number of flowers part_000's handler spawns for the fingertip h in
\* this state, had the previous fingertip been prev
OldSpawned(prev, h, occasional) ==
    Len(OldHandleHandInteraction([SketchState EXCEPT !.prevIndexPos = prev],
                                 h, occasional,
                                 CHOOSE size \in OldFlowerSizes : TRUE).parts)
      - Len(parts)

\* for every fingertip, a previous fingertip 9 away spawns at least as many
\* flowers as one 8 away or none at all
FastSpawnsNoLess ==
    OldBuild /\ sketch = "running" =>
      \A h \in Hands, occasional \in BOOLEAN :
        \A slow \in {Null, [x |-> h.x, y |-> h.y], [x |-> h.x + 8, y |-> h.y]} :
          OldSpawned([x |-> h.x + 9, y |-> h.y], h, TRUE) >=
            OldSpawned(slow, h, occasional)

SpawnWithinLimits ==
    OldBuild /\ Detected("hand") =>
      IF trace'.vel2 > 64
      THEN /\ Cardinality(NewFlowers) <= 5
           /\ \A j \in NewFlowers : GrewWithin(parts'[j], trace'.hand, 6400)
      ELSE /\ Cardinality(NewFlowers) <= 1
           /\ \A j \in NewFlowers : GrewWithin(parts'[j], trace'.hand, 1600)

FlowersAccounted ==
    /\ used.flowered + Len(treePositions) = used.recorded
    /\ \A i, j \in 1..Len(treePositions) :
         treePositions[i].n = treePositions[j].n => i = j
    /\ \A i, j \in 1..Len(parts) :
         /\ parts[i].tag = FLOWER /\ parts[j].tag = FLOWER
         /\ parts[i].from = parts[j].from
         => i = j
    /\ \A i \in 1..Len(parts), k \in 1..Len(treePositions) :
         parts[i].tag = FLOWER => parts[i].from # treePositions[k].n

FlowerTakesEntry ==
    /\ \A j \in NewFlowers :
         /\ \E k \in 1..Len(treePositions) :
              /\ treePositions[k].n = parts'[j].from
              /\ treePositions[k].x = parts'[j].pos.x
              /\ treePositions[k].y = parts'[j].pos.y
         /\ \A k \in 1..Len(treePositions') :
              treePositions'[k].n # parts'[j].from
    /\ trace'.act = "draw" =>
         used'.flowered = used.flowered + Cardinality(NewFlowers)

\* C4: a flower is created at the coordinates of an entry of treePositions,
\* which is removed in the same step; since the tree last started the
\* flowers spawned and the entries left add up to the positions recorded;
\* no entry is the origin of two flowers, and none of a flower is left.
C4_FlowersOnRecordedPositions ==
    []FlowersAccounted /\ [][FlowerTakesEntry]_vars

\* after a resize, a flower has bloomed and another entry is left
C4_FlowerAndEntryLeft ==
    /\ used.resizes > 0
    /\ used.flowered > 0 /\ HasTag(FLOWER)
    /\ Len(treePositions) > 0

\* the particles of parts are those of the draw loop run on the particles
\* and the positions as they were before the step
LoopRanOnUntouched ==
    \E fin \in UpdateLoop(build,
                          [ parts |-> Aged(parts), tp |-> treePositions,
                            nextId |-> nextId, u |-> used, died |-> {} ],
                          Len(parts), (frameCount + 1) % FrameCycle, win.h) :
      parts' = fin.parts /\ treePositions' = fin.tp

DetectionFailureHarmless ==
    Detected("threw") =>
      /\ prevIndexPos' = prevIndexPos
      /\ wandPos' = wandPos
      /\ fingerStillFrames' = fingerStillFrames
      /\ LoopRanOnUntouched
      /\ \A i \in 1..Len(parts) :
           IsTree(parts[i]) =>
             \/ parts[i].tag \in trace'.died
             \/ \E j \in 1..Len(parts') :
                  /\ parts'[j].id = parts[i].id
                  /\ parts'[j].life = parts[i].life + 1
      /\ lastVideoTime # videoTime /\ lastVideoTime' = videoTime
      /\ ~CanDetect'

\* C5: when detectForVideo throws in a draw call, prevIndexPos, wandPos and
\* fingerStillFrames are as before, parts and treePositions are what the
\* draw loop makes of their values before the call, every tree particle has
\* been updated, and lastVideoTime is the time of the frame, so that the
\* frame is not detected again.
C5_DetectionFailureHarmless == [][DetectionFailureHarmless]_vars

\* a detection has thrown in the middle of a gesture, the tree growing
C5_ThrewMidGesture ==
    /\ trace.detect = "threw"
    /\ prevIndexPos # Null /\ wandPos # Null /\ fingerStillFrames > 0
    /\ HasTag(TRUNK) /\ treePositions # << >>

-----------------------------------------------------------------------------
(* The properties of the gesture interpretation, over GestureSpec *)

\* the flower is in parts after the step, hovered and turned as it was
\* (its lastHoveredTime is the same: only the clock has moved on)
UntouchedFlower(p) ==
    \E j \in 1..Len(parts') :
      /\ parts'[j].id = p.id
      /\ parts'[j].interactionRotation = p.interactionRotation
      /\ parts'[j].timeSinceHover = Min(p.timeSinceHover + FrameMs, HoverHorizon)

OneEvent ==
    Detected("hand") =>
      /\ trace'.interact # trace'.paint
      /\ trace'.interact <=> (trace'.hand.pointing /\ fingerStillFrames' > 10)
      /\ trace'.interact =>
           /\ NewFlowers = {}
           /\ Len(treePositions') >= Len(treePositions)
           /\ SubSeq(treePositions', 1, Len(treePositions)) = treePositions
      /\ trace'.paint =>
           \A i \in 1..Len(parts) :
             parts[i].tag = FLOWER => UntouchedFlower(parts[i])

\* C8: a detection with a hand is an interact event exactly if the hand
\* points and fingerStillFrames is above 10, and a paint event otherwise,
\* never both; interact spawns no flower and removes no entry of
\* treePositions; paint leaves the lastHoveredTime and interactionRotation
\* of every flower alone.
C8_InteractOrPaint == [][OneEvent]_vars

\* an interact detection has just hovered a flower
C8_InteractHoversFlower ==
    /\ trace.interact /\ ~trace.paint
    /\ \E i \in 1..Len(parts) :
         /\ parts[i].tag = FLOWER
         /\ parts[i].timeSinceHover = 0
         /\ parts[i].interactionRotation = trace.hand.angle

StillCounted ==
    /\ Detected("hand") =>
         fingerStillFrames' =
           IF velocity2(prevIndexPos, trace'.hand) < 9
           THEN fingerStillFrames + 1 ELSE 0
    /\ Detected("nohand") => fingerStillFrames' = 0
    /\ Detected("none") \/ Detected("threw") =>
         fingerStillFrames' = fingerStillFrames

InteractAfterStillRun ==
    /\ fingerStillFrames <= used.seen
    /\ trace.interact => fingerStillFrames >= 11 /\ used.seen >= 11

\* C10: fingerStillFrames grows by one on a detection of a hand slower than
\* 3, is 0 after a faster one and after a detection without a hand, and is
\* the same after a draw without a detection result; it never exceeds the
\* number of detections in a row that found a hand, and an interact event
\* happens only when it is 11 or more.
C10_StillFramesCountRun == []InteractAfterStillRun /\ [][StillCounted]_vars

\* an interact event on the 11th still detection, after a faster one had
\* broken an earlier run
C10_InteractAfterBrokenRun ==
    /\ trace.interact
    /\ fingerStillFrames = 11
    /\ used.seen > fingerStillFrames

HandLostResets ==
    NewBuild /\ Detected("nohand") =>
      /\ prevIndexPos' = Null /\ wandPos' = Null /\ fingerStillFrames' = 0
      /\ ~trace'.paint /\ ~trace'.interact
      /\ NewFlowers = {}
      /\ LoopRanOnUntouched

HandBackPaintsNothing ==
    NewBuild /\ Detected("hand") /\ prevIndexPos = Null =>
      /\ wandPos = Null
      /\ trace'.vel2 = 0
      /\ wandPos' = [x |-> trace'.hand.x, y |-> trace'.hand.y]
      /\ prevIndexPos' = [x |-> trace'.hand.x, y |-> trace'.hand.y]
      /\ NewFlowers = {}
      /\ LoopRanOnUntouched

\* C11: a detection without landmarks sets prevIndexPos and wandPos to null
\* and fingerStillFrames to 0, spawns nothing, and leaves parts and
\* treePositions to the draw loop alone; the first detection of a hand after
\* that (or after the start) has velocity 0, puts wandPos on the fingertip
\* and spawns no flower, parts and treePositions again being what the draw
\* loop makes of them.
C11_HandLossResets == [][HandLostResets /\ HandBackPaintsNothing]_vars

\* the hand is back after a flower was painted, its fingertip within 30 of a
\* recorded position, and no flower has grown there
C11_HandBackNearEntry ==
    /\ trace.detect = "hand" /\ used.seen = 1 /\ trace.vel2 = 0
    /\ HasTag(FLOWER)
    /\ wandPos = [x |-> trace.hand.x, y |-> trace.hand.y]
    /\ \E k \in 1..Len(treePositions) :
         dist2(trace.hand.x, trace.hand.y,
               treePositions[k].x, treePositions[k].y) < 900

\* what a step does to the flower p of parts, q being the same flower after
\* it
BloomKept(p, q) ==
    /\ p.isBloomed => q.isBloomed
    /\ q.isBloomed => q.targetScale = TargetBloomed
    /\ ~q.isBloomed => q.targetScale = TargetNormal
    /\ q.isBloomed /\ ~p.isBloomed =>
         /\ q.timeSinceHover < 200
         /\ trace'.interact

BloomPermanent ==
    /\ \A i \in 1..Len(parts), j \in 1..Len(parts') :
         parts[i].tag = FLOWER /\ parts'[j].id = parts[i].id =>
           BloomKept(parts[i], parts'[j])
    /\ \A j \in NewFlowers :
         ~parts'[j].isBloomed /\ parts'[j].targetScale = TargetNormal

\* C12: a flower whose isBloomed is true keeps it true, and after every
\* update its targetScale is 2.5 if it is bloomed and 1 if it is not; a
\* flower starts unbloomed, and isBloomed turns true only in the update of
\* a draw call whose interact detection hovered it, less than 200 ms after
\* its lastHoveredTime.
C12_BloomingPermanent == [][NewBuild => BloomPermanent]_vars

\* a bloomed flower whose hover ended, next to one that was never hovered
C12_BloomedAfterHover ==
    /\ NewBuild
    /\ \E i, j \in 1..Len(parts) :
         /\ parts[i].tag = FLOWER /\ parts[i].isBloomed
         /\ parts[i].timeSinceHover >= 200
         /\ parts[i].targetScale = TargetBloomed
         /\ parts[j].tag = FLOWER /\ ~parts[j].isBloomed
         /\ parts[j].targetScale = TargetNormal

-----------------------------------------------------------------------------
(* The hover of an interact detection, over GestureSpec *)

\* the squared distance of the particle to the fingertip of the step
TipDist2(p) == dist2(trace'.hand.x, trace'.hand.y, p.pos.x, p.pos.y)
\* the particles of parts whose lastHoveredTime the step has set to millis()
HoveredNow ==
    { i \in 1..Len(parts) :
        \E j \in 1..Len(parts') :
          parts'[j].id = parts[i].id /\ parts'[j].timeSinceHover = 0 }
\* the flowers of parts closer than 50 to the fingertip of the step
FlowersInReach ==
    { i \in 1..Len(parts) : parts[i].tag = FLOWER /\ TipDist2(parts[i]) < 2500 }
\* the particle is after the step, if it is still there, as unhovered and
\* as turned as the passing of one frame leaves it
NotHovered(p) ==
    \A j \in 1..Len(parts') :
      parts'[j].id = p.id =>
        /\ parts'[j].interactionRotation = p.interactionRotation
        /\ parts'[j].timeSinceHover = Min(p.timeSinceHover + FrameMs, HoverHorizon)

HoversNearest ==
    NewBuild /\ Detected("hand") /\ trace'.interact =>
      /\ Cardinality(HoveredNow) <= 1
      /\ \A i \in HoveredNow :
           /\ parts[i].tag = FLOWER
           /\ TipDist2(parts[i]) < 2500
           /\ \A k \in 1..Len(parts) :
                parts[k].tag = FLOWER => TipDist2(parts[k]) >= TipDist2(parts[i])
           /\ \E j \in 1..Len(parts') :
                /\ parts'[j].id = parts[i].id
                /\ parts'[j].interactionRotation = trace'.hand.angle
      /\ FlowersInReach # {} => HoveredNow # {}
      /\ FlowersInReach = {} => LoopRanOnUntouched
      /\ \A i \in 1..Len(parts) :
           i \notin HoveredNow => NotHovered(parts[i])

-----------------------------------------------------------------------------
(* The flowers of one paint detection *)

\* the ids of the flowers the step has spawned
NewFlowerIds == { parts'[j].id : j \in NewFlowers }
\* the flower of parts' with the given id
FlowerOf(id) == parts'[CHOOSE j \in 1..Len(parts') : parts'[j].id = id]
\* the entries of treePositions before the step that lie within 30 of the
\* sample point s of the segment from prevIndexPos to the fingertip
NearEntries(s, steps) ==
    { k \in 1..Len(treePositions) :
        NearSample(prevIndexPos, trace'.hand, s, steps, treePositions[k]) }
\* sampleOf gives each new flower its sample point: later flowers have later
\* sample points, a flower grew on an entry near its sample point, every
\* more recently recorded entry near that point went to an earlier sample,
\* and a sample point without a flower had no entry left near it.
\* flower[id] is the new flower id, near[s] the entries near sample point s.
SamplesExplain(sampleOf, steps, flower, near) ==
    LET ids == DOMAIN flower
        TakenBefore(k, s) ==
          \E id \in ids :
            sampleOf[id] < s /\ flower[id].from = treePositions[k].n
    IN  /\ \A a, b \in ids : a < b => sampleOf[a] < sampleOf[b]
        /\ \A id \in ids :
             \E k \in near[sampleOf[id]] :
               /\ treePositions[k].n = flower[id].from
               /\ treePositions[k].x = flower[id].pos.x
               /\ treePositions[k].y = flower[id].pos.y
               /\ ~TakenBefore(k, sampleOf[id])
               /\ \A m \in near[sampleOf[id]] :
                    m > k => TakenBefore(m, sampleOf[id])
        /\ \A s \in 0..steps :
             (\A id \in ids : sampleOf[id] # s) =>
               \A k \in near[s] : TakenBefore(k, s)

PaintBounded ==
    NewBuild /\ Detected("hand") /\ trace'.paint =>
      LET steps == Steps(trace'.vel2)
          flower == [id \in NewFlowerIds |-> FlowerOf(id)]
          near == [s \in 0..steps |-> NearEntries(s, steps)]
      IN  /\ trace'.vel2 = velocity2(prevIndexPos, trace'.hand)
          /\ Cardinality(NewFlowers) <= steps + 1
          /\ \A i, j \in NewFlowers :
               parts'[i].from = parts'[j].from => i = j
          /\ prevIndexPos = Null \/ steps = 0 => NewFlowers = {}
          /\ prevIndexPos # Null /\ steps > 0 =>
               \E sampleOf \in [DOMAIN flower -> 0..steps] :
                 SamplesExplain(sampleOf, steps, flower, near)
          /\ \A k \in 1..Len(treePositions) : \A m \in 1..k :
               treePositions[m].n <= treePositions[k].n

\* C14: a paint detection with steps = ceil(velocity / 10) spawns at most
\* steps + 1 flowers, each on a different treePositions entry and none when
\* there is no previous fingertip or the fingertip has not moved; the
\* flowers can be given distinct sample points 0..steps of the segment from
\* the previous fingertip so that each grew on the most recently recorded
\* entry within 30 of its sample point that no earlier sample point had
\* taken, and a sample point without a flower had no such entry.
\* treePositions is in recording order, so the last entry is the most
\* recently recorded.
C14_PaintSpawnsBounded == [][PaintBounded]_vars

\* a paint detection has just spawned a flower on the most recent of two
\* recorded positions within 30 of the fingertip: the older is still there
C14_RecentEntryTaken ==
    /\ NewBuild /\ trace.act = "draw" /\ trace.detect = "hand" /\ trace.paint
    /\ trace.vel2 > 0
    /\ \E i \in 1..Len(parts) : \E k \in 1..Len(treePositions) :
         /\ parts[i].tag = FLOWER /\ parts[i].siz = 100
         /\ treePositions[k].n < parts[i].from
         /\ dist2(trace.hand.x, trace.hand.y,
                  treePositions[k].x, treePositions[k].y) < 900

====
